---------------------------- MODULE Spec2Model ----------------------------
(***************************************************************************)
(* Model of src/index.js: an Express server over a better-sqlite3 database *)
(* with the tables users(id, username UNIQUE, password) and                *)
(* posts(id, user_id REFERENCES users(id), content), and eight endpoints.  *)
(*                                                                         *)
(* Text is a sequence of lexemes (<<"alice">>, <<"$2b$", "10", ...>>), so  *)
(* that hashing and sanitizing are computed on it and not assumed.  An SQL *)
(* value is a record [t, n, s]: storage class, integer, text.              *)
(***************************************************************************)
EXTENDS Integers, Sequences, FiniteSets, Bags, TLC

VARIABLES users, posts, pending, resp

vars == <<users, posts, pending, resp>>

\* Bounds of the model: rows per table and requests suspended at an await.
MaxUsers == 2
MaxPosts == 2
MaxPending == 2

\* bcrypt.hash(password, 10): the work factor.
SaltRounds == 10

-----------------------------------------------------------------------------
(* SQL values                                                              *)

Null == [t |-> "null", n |-> 0, s |-> <<>>]
Integer(n) == [t |-> "integer", n |-> n, s |-> <<>>]
Text(s) == [t |-> "text", n |-> 0, s |-> s]

\* The texts SQLite reads as a well-formed integer, with their value.
NumericText ==
  (<<"0">> :> 0) @@ (<<"1">> :> 1) @@ (<<"2">> :> 2) @@ (<<"3">> :> 3) @@
  (<<"4">> :> 4) @@ (<<"01">> :> 1) @@ (<<"02">> :> 2)

\* INTEGER column affinity: a text that looks like an integer is converted,
\* any other value is kept as it is.
IntegerAffinity(v) ==
  IF v.t = "text" /\ v.s \in DOMAIN NumericText THEN Integer(NumericText[v.s]) ELSE v

\* The SQL comparison a = b as a WHERE clause takes it: NULL equals nothing.
SqlEq(a, b) == a.t # "null" /\ b.t # "null" /\ a = b

-----------------------------------------------------------------------------
(* bcrypt                                                                  *)

Salts == {"saltA", "saltB"}

\* The digest of a password under a salt: a one-way function, modelled as an
\* injective encoding of the pair (different pairs, different digests).
Digest(salt, p) == <<"{", salt>> \o p \o <<"}">>

\* bcrypt.hash(p, rounds) with the salt it generated: version, work factor
\* and salt are embedded in the output, followed by the digest.
BcryptHash(p, rounds, salt) == <<"$2b$", ToString(rounds), salt>> \o Digest(salt, p)

\* bcrypt.compare(p, stored): recompute with the embedded parameters.
BcryptCompare(p, stored) ==
  /\ Len(stored) >= 3
  /\ stored[1] = "$2b$"
  /\ stored = <<stored[1], stored[2], stored[3]>> \o Digest(stored[3], p)

\* bcrypt.hash rejects data that is not a string ("data and salt arguments
\* required"); the handler's await then throws into its catch.
BcryptAccepts(password) == password.t = "text"

-----------------------------------------------------------------------------
(* The users table                                                         *)

UniqueViolation_NoConstraint(username) == FALSE

\* The UNIQUE constraint on users.username; NULLs are distinct from each other.
UniqueViolation(username) ==
  \E i \in DOMAIN users : SqlEq(users[i].username, username)

\* INSERT INTO users (username, password) VALUES (?, ?): AUTOINCREMENT id.
InsertUser(username, password) ==
  Append(users, [id |-> Len(users) + 1, username |-> username, password |-> password])

\* SELECT ... FROM users WHERE id = ?  (.get: the first row or undefined)
UserRows(id) ==
  {i \in DOMAIN users : SqlEq(Integer(users[i].id), IntegerAffinity(id))}

-----------------------------------------------------------------------------
(* Responses                                                               *)

NoBody == [empty |-> TRUE]

Json(ep, req, status, body, ran) ==
  [ep |-> ep, req |-> req, status |-> status, type |-> "json", body |-> body,
   handler |-> ran]

\* Express's default error handler, reached by an exception a handler does
\* not catch: status 500 and an HTML page.
Uncaught(ep, req, message) ==
  [ep |-> ep, req |-> req, status |-> 500, type |-> "html",
   body |-> [uncaught |-> message], handler |-> TRUE]


-----------------------------------------------------------------------------
(* Request inputs                                                          *)

UsernameInputs == {Text(<<"alice">>), Text(<<"bob">>), Null}

\* A password, a password that has the shape of a bcrypt output, and none.
PasswordInputs ==
  {Text(<<"pw123">>), Text(BcryptHash(<<"pw123">>, SaltRounds, "saltA")), Null}

\* The accounts the lookups and the posts are exercised with.
ScenarioUsernames == {Text(<<"alice">>), Text(<<"bob">>)}
ScenarioPasswords == {Text(<<"pw123">>)}

\* :id path parameters (always text).
IdInputs == {Text(<<"1">>), Text(<<"2">>), Text(<<"01">>), Text(<<"abc">>)}

\* Request headers, with and without an Authorization header.
HeaderInputs ==
  {[accept |-> "*/*"]} \cup
  {[accept |-> "*/*", authorization |-> a] :
     a \in {"Bearer valid_token", "Bearer invalid_token", "bearer valid_token",
            "Bearer valid_token ", "valid_token"}}

-----------------------------------------------------------------------------
(* 1. Access control                                                       *)

\* app.get('/user/:id'): SELECT * ... .get(id); res.json(user)
GetUser(id) ==
  /\ resp' = Json("GET /user/:id", [id |-> id], 200,
                  IF UserRows(id) = {} THEN NoBody
                  ELSE users[CHOOSE i \in UserRows(id) : TRUE], TRUE)
  /\ UNCHANGED <<users, posts, pending>>

Authorized_IgnoreCase(headers) ==
  /\ "authorization" \in DOMAIN headers
  /\ headers.authorization \in {"Bearer valid_token", "bearer valid_token"}

\* authMiddleware's test: req.headers.authorization === 'Bearer valid_token'
Authorized(headers) ==
  /\ "authorization" \in DOMAIN headers
  /\ headers.authorization = "Bearer valid_token"

Reject_Forbidden(ep, req) == Json(ep, req, 403, [error |-> "Não autorizado"], FALSE)

\* authMiddleware's else branch: res.status(401).json({ error: ... })
Reject(ep, req) == Json(ep, req, 401, [error |-> "Não autorizado"], FALSE)

PublicUser_AllColumns(row) == row

\* SELECT id, username FROM users WHERE id = ?
PublicUser(row) == [id |-> row.id, username |-> row.username]

\* app.get('/user/:id/secure', authMiddleware, handler)
GetUserSecure(id, headers) ==
  /\ resp' =
       IF Authorized(headers)
       THEN Json("GET /user/:id/secure", [id |-> id, headers |-> headers], 200,
                 IF UserRows(id) = {} THEN NoBody
                 ELSE PublicUser(users[CHOOSE i \in UserRows(id) : TRUE]), TRUE)
       ELSE Reject("GET /user/:id/secure", [id |-> id, headers |-> headers])
  /\ UNCHANGED <<users, posts, pending>>

-----------------------------------------------------------------------------
(* 2. Registration                                                         *)

UniqueMessage == "UNIQUE constraint failed: users.username"
BcryptMessage == "data and salt arguments required"

\* app.post('/register/insecure'): the password is stored as given.
RegisterInsecure(username, password) ==
  /\ Len(users) + BagCardinality(pending) < MaxUsers \/ UniqueViolation(username)
  /\ LET req == [username |-> username, password |-> password]
     IN IF UniqueViolation(username)
        THEN /\ users' = users
             /\ resp' = Json("POST /register/insecure", req, 400,
                             [error |-> UniqueMessage], TRUE)
        ELSE /\ users' = InsertUser(username, password)
             /\ resp' = Json("POST /register/insecure", req, 200,
                             [success |-> TRUE], TRUE)
  /\ UNCHANGED <<posts, pending>>

\* app.post('/register/secure'), up to its await: bcrypt.hash runs off the
\* event loop and other requests are served meanwhile.
RegisterSecure(username, password) ==
  /\ BagCardinality(pending) < MaxPending
  /\ \/ Len(users) + BagCardinality(pending) < MaxUsers
     \/ UniqueViolation(username)
     \/ ~BcryptAccepts(password)
  /\ pending' = pending (+) SetToBag({[username |-> username, password |-> password]})
  /\ UNCHANGED <<users, posts, resp>>

HashedPassword_Plain(password, salt) == password

\* The value the handler binds as the password: the awaited hash.
HashedPassword(password, salt) == Text(BcryptHash(password.s, SaltRounds, salt))

\* app.post('/register/secure'), from the await on: the insert and the answer,
\* or the catch.
RegisterSecureResume(req, salt) ==
  /\ BagIn(req, pending)
  /\ IF ~BcryptAccepts(req.password)
     THEN /\ users' = users
          /\ resp' = Json("POST /register/secure", req, 400,
                          [error |-> BcryptMessage], TRUE)
     ELSE IF UniqueViolation(req.username)
     THEN /\ users' = users
          /\ resp' = Json("POST /register/secure", req, 400,
                          [error |-> UniqueMessage], TRUE)
     ELSE /\ users' = InsertUser(req.username, HashedPassword(req.password, salt))
          /\ resp' = Json("POST /register/secure", req, 200,
                          [success |-> TRUE], TRUE)
  /\ pending' = pending (-) SetToBag({req})
  /\ UNCHANGED posts

-----------------------------------------------------------------------------
(* 4. The sanitizer, xss(content)                                          *)
(*                                                                         *)
(* A content text is a sequence of nodes, as the sanitizer's parser reads  *)
(* it: a run of text, an opening tag with its attributes, a closing tag,   *)
(* or a tag written out with &lt; and &gt; (which the parser reads as      *)
(* text).  An attribute value is a sequence of characters.                 *)

TextNode(t) == [k |-> "text", name |-> t, attrs |-> <<>>]
OpenTag(name, attrs) == [k |-> "open", name |-> name, attrs |-> attrs]
CloseTag(name) == [k |-> "close", name |-> name, attrs |-> <<>>]
Attr(name, val) == [name |-> name, has |-> TRUE, val |-> val]

\* The sanitizer's default allow-list, for the tags of the model's inputs.
WhiteList ==
  [a |-> {"target", "href", "title"},
   img |-> {"src", "alt", "title", "width", "height"},
   b |-> {}]

\* String.fromCharCode for the character references of the model's inputs.
CharCode == (<<"3", "8">> :> "&") @@ (<<"6", "0">> :> "<") @@ (<<"6", "2">> :> ">")

AlphaNum == {"0", "2", "3", "6", "8", "x", "l", "t", "g", "a", "e", "r"}

\* The length of the run of letters and digits at the head of v.
RECURSIVE CodeLen(_)
CodeLen(v) ==
  IF v # <<>> /\ Head(v) \in AlphaNum THEN 1 + CodeLen(Tail(v)) ELSE 0

\* escapeHtmlEntities: one left-to-right pass replacing each &#code; (the
\* semicolon optional) by its character; the result is not scanned again.
RECURSIVE EscapeHtmlEntities(_)
EscapeHtmlEntities(v) ==
  IF v = <<>> THEN <<>>
  ELSE IF Len(v) >= 2 /\ v[1] = "&" /\ v[2] = "#"
  THEN LET n == CodeLen(SubSeq(v, 3, Len(v)))
           code == SubSeq(v, 3, 2 + n)
           semi == IF Len(v) >= 3 + n /\ v[3 + n] = ";" THEN 1 ELSE 0
           rest == SubSeq(v, 3 + n + semi, Len(v))
       IN (IF code \in DOMAIN CharCode THEN <<CharCode[code]>> ELSE <<>>)
            \o EscapeHtmlEntities(rest)
  ELSE <<Head(v)>> \o EscapeHtmlEntities(Tail(v))

Quot == <<"&", "q", "u", "o", "t", ";">>

\* unescapeQuote: &quot; becomes a double quote.
RECURSIVE UnescapeQuote(_)
UnescapeQuote(v) ==
  IF v = <<>> THEN <<>>
  ELSE IF Len(v) >= 6 /\ SubSeq(v, 1, 6) = Quot
  THEN <<"\"">> \o UnescapeQuote(SubSeq(v, 7, Len(v)))
  ELSE <<Head(v)>> \o UnescapeQuote(Tail(v))

\* friendlyAttrValue: the value as a browser would read it.
FriendlyAttrValue(v) == EscapeHtmlEntities(UnescapeQuote(v))

\* escapeAttrValue: escapeQuote, then escapeHtml.
RECURSIVE EscapeAttrValue(_)
EscapeAttrValue(v) ==
  IF v = <<>> THEN <<>>
  ELSE (CASE Head(v) = "\"" -> Quot
          [] Head(v) = "<" -> <<"&", "l", "t", ";">>
          [] Head(v) = ">" -> <<"&", "g", "t", ";">>
          [] OTHER -> <<Head(v)>>) \o EscapeAttrValue(Tail(v))

\* The prefixes safeAttrValue accepts in href and src.
UrlPrefixes ==
  {<<"h", "t", "t", "p", ":", "/", "/">>, <<"h", "t", "t", "p", "s", ":", "/", "/">>,
   <<"m", "a", "i", "l", "t", "o", ":">>, <<"t", "e", "l", ":">>,
   <<"d", "a", "t", "a", ":", "i", "m", "a", "g", "e", "/">>,
   <<"f", "t", "p", ":", "/", "/">>, <<".", "/">>, <<".", ".", "/">>, <<"#">>, <<"/">>}

StartsWith(v, pre) == Len(v) >= Len(pre) /\ SubSeq(v, 1, Len(pre)) = pre

\* safeAttrValue(tag, name, value)
SafeAttrValue(name, v) ==
  LET value == FriendlyAttrValue(v)
  IN IF name \in {"href", "src"} /\ ~(\E pre \in UrlPrefixes : StartsWith(value, pre))
     THEN <<>>
     ELSE EscapeAttrValue(value)

\* An allowed attribute is written back as name="value", or as the bare name
\* when its safe value is empty.
SafeAttr(at) ==
  LET value == IF at.has THEN SafeAttrValue(at.name, at.val) ELSE <<>>
  IN [name |-> at.name, has |-> value # <<>>, val |-> value]

\* The attributes of an allowed tag: those outside the tag's list are dropped.
RECURSIVE SafeAttrs(_, _)
SafeAttrs(tag, attrs) ==
  IF attrs = <<>> THEN <<>>
  ELSE (IF Head(attrs).name \in WhiteList[tag] THEN <<SafeAttr(Head(attrs))>> ELSE <<>>)
         \o SafeAttrs(tag, Tail(attrs))

\* A tag outside the allow-list is kept as text, its < and > escaped.
Escaped(node) == [k |-> "escaped-" \o node.k, name |-> node.name, attrs |-> node.attrs]

XssNode(node) ==
  IF node.k \in {"open", "close"}
  THEN IF node.name \in DOMAIN WhiteList
       THEN [node EXCEPT !.attrs = SafeAttrs(node.name, node.attrs)]
       ELSE Escaped(node)
  ELSE node

\* xss(html) on a string.
Xss(html) == [i \in DOMAIN html |-> XssNode(html[i])]

\* xss(content) on the request's value: a missing content becomes "".
Sanitize(content) == IF content.t = "text" THEN Text(Xss(content.s)) ELSE Text(<<>>)

ScriptContent == <<OpenTag("script", <<>>), TextNode("alert(1)"), CloseTag("script")>>
ImgContent ==
  <<OpenTag("img", <<Attr("src", <<"x">>),
                     Attr("onerror", <<"a", "l", "e", "r", "t", "(", "1", ")">>)>>)>>
EntityContent ==
  <<OpenTag("a", <<Attr("title", <<"&", "#", "3", "8", ";", "#", "6", "0", ";">>)>>)>>
PlainContent == <<TextNode("hello")>>

-----------------------------------------------------------------------------
(* The posts table                                                         *)

ForeignKeyViolation_Off(userId) == FALSE

\* FOREIGN KEY (user_id) REFERENCES users(id), which better-sqlite3 enforces
\* (its SQLite has foreign keys on by default): a user_id that is not NULL
\* must be the id of a row of users.
ForeignKeyViolation(userId) ==
  /\ userId.t # "null"
  /\ ~(\E i \in DOMAIN users : SqlEq(Integer(users[i].id), userId))

\* INSERT INTO posts (user_id, content) VALUES (?, ?): AUTOINCREMENT id, the
\* user_id column's INTEGER affinity applied to the bound value.
InsertPost(userId, content) ==
  Append(posts, [id |-> Len(posts) + 1, user_id |-> IntegerAffinity(userId),
                 content |-> content])

-----------------------------------------------------------------------------
(* 3. Reading posts                                                        *)

\* The text of `${userId}`: a missing query parameter is "undefined".
Interpolate(userId) == IF userId.t = "text" THEN userId.s ELSE <<"undefined">>

\* What SQLite makes of `SELECT * FROM posts WHERE user_id = ` followed by the
\* interpolated text: a comparison with a number, a condition true of every
\* row, or an error of db.prepare.
PrepareInterpolated(tail) ==
  CASE tail \in DOMAIN NumericText -> [kind |-> "eq", n |-> NumericText[tail], message |-> ""]
    [] tail = <<"1 OR 1=1">> -> [kind |-> "all", n |-> 0, message |-> ""]
    [] tail = <<"null">> -> [kind |-> "none", n |-> 0, message |-> ""]
    [] tail = <<"">> -> [kind |-> "error", n |-> 0, message |-> "incomplete input"]
    [] tail = <<"1; DROP TABLE posts">> ->
         [kind |-> "error", n |-> 0,
          message |-> "The supplied SQL string contains more than one statement"]
    [] OTHER -> [kind |-> "error", n |-> 0, message |-> "no such column"]

\* app.get('/posts/insecure'): the query text is built from the parameter.
PostsInsecure(userId) ==
  /\ LET q == PrepareInterpolated(Interpolate(userId))
         OwnedBy(row) == SqlEq(row.user_id, Integer(q.n))
         Every(row) == TRUE
         None(row) == FALSE
     IN resp' =
          CASE q.kind = "error" ->
                 Uncaught("GET /posts/insecure", [userId |-> userId], q.message)
            [] q.kind = "eq" ->
                 Json("GET /posts/insecure", [userId |-> userId], 200,
                      SelectSeq(posts, OwnedBy), TRUE)
            [] q.kind = "all" ->
                 Json("GET /posts/insecure", [userId |-> userId], 200,
                      SelectSeq(posts, Every), TRUE)
            [] OTHER ->
                 Json("GET /posts/insecure", [userId |-> userId], 200,
                      SelectSeq(posts, None), TRUE)
  /\ UNCHANGED <<users, posts, pending>>

PostsByOwner_Interpolated(userId) ==
  LET q == PrepareInterpolated(Interpolate(userId))
      Selected(row) == q.kind = "all" \/ (q.kind = "eq" /\ SqlEq(row.user_id, Integer(q.n)))
  IN SelectSeq(posts, Selected)

\* SELECT * FROM posts WHERE user_id = ?  with the parameter bound as a value
\* (a missing one as NULL), compared under the column's INTEGER affinity.
PostsByOwner(userId) ==
  LET OwnedBy(row) == SqlEq(row.user_id, IntegerAffinity(userId))
  IN SelectSeq(posts, OwnedBy)

\* app.get('/posts/secure')
PostsSecure(userId) ==
  /\ resp' = Json("GET /posts/secure", [userId |-> userId], 200,
                  PostsByOwner(userId), TRUE)
  /\ UNCHANGED <<users, posts, pending>>

-----------------------------------------------------------------------------
(* 4. Creating posts                                                       *)

ForeignKeyMessage == "FOREIGN KEY constraint failed"

RawContent_Sanitized(content) == Sanitize(content)

\* The content /post/insecure binds: the request's, as it is.
RawContent(content) == content

\* The shared shape of the two handlers: one insert outside any try, then
\* res.json({ success: true }).
CreatePost(ep, userId, content, stored) ==
  /\ Len(posts) < MaxPosts \/ ForeignKeyViolation(IntegerAffinity(userId))
  /\ LET req == [userId |-> userId, content |-> content]
     IN IF ForeignKeyViolation(IntegerAffinity(userId))
        THEN /\ posts' = posts
             /\ resp' = Uncaught(ep, req, ForeignKeyMessage)
        ELSE /\ posts' = InsertPost(userId, stored)
             /\ resp' = Json(ep, req, 200, [success |-> TRUE], TRUE)
  /\ UNCHANGED <<users, pending>>

\* app.post('/post/insecure')
PostInsecure(userId, content) ==
  CreatePost("POST /post/insecure", userId, content, RawContent(content))

\* app.post('/post/secure')
PostSecure(userId, content) ==
  CreatePost("POST /post/secure", userId, content, Sanitize(content))

\* userId in a request body: a JSON number, a string, or none.
BodyUserIds == {Integer(1), Integer(2), Text(<<"1">>), Text(<<"abc">>), Null}

\* userId in a query string: a string, or none.
QueryUserIds ==
  {Text(<<"1">>), Text(<<"2">>), Text(<<"01">>), Text(<<"1 OR 1=1">>), Text(<<"abc">>),
   Text(<<"null">>), Null}

ContentInputs == {Text(ImgContent), Text(PlainContent)}
MarkupInputs == {Text(ScriptContent), Text(ImgContent), Text(EntityContent)}

\* Content read back from the posts table, to be submitted again.
StoredContents == {posts[i].content : i \in DOMAIN posts}

-----------------------------------------------------------------------------
(* The server                                                              *)

\* After startup on a fresh database file: empty tables, nothing in flight.
Init ==
  /\ users = <<>>
  /\ posts = <<>>
  /\ pending = EmptyBag
  /\ resp = [ep |-> "none", req |-> NoBody, status |-> 0, type |-> "none",
             body |-> NoBody, handler |-> FALSE]

\* The requests in flight at an await of /register/secure.
PendingInputs == [username : UsernameInputs, password : PasswordInputs]

\* Registration of every kind of username, under every interleaving.
NextRegister ==
  \/ \E u \in UsernameInputs, p \in {Text(<<"pw123">>), Null} : RegisterInsecure(u, p)
  \/ \E u \in UsernameInputs, p \in {Text(<<"pw123">>), Null} : RegisterSecure(u, p)
  \/ \E req \in PendingInputs, salt \in Salts : RegisterSecureResume(req, salt)

SpecRegister == Init /\ [][NextRegister]_vars

\* Registration of every kind of password.
NextPassword ==
  \/ \E u \in ScenarioUsernames, p \in PasswordInputs : RegisterInsecure(u, p)
  \/ \E u \in ScenarioUsernames, p \in PasswordInputs : RegisterSecure(u, p)
  \/ \E req \in PendingInputs, salt \in Salts : RegisterSecureResume(req, salt)

SpecPassword == Init /\ [][NextPassword]_vars

\* The two user lookups, over accounts registered through either endpoint.
NextAccess ==
  \/ \E id \in IdInputs : GetUser(id)
  \/ \E id \in IdInputs, h \in HeaderInputs : GetUserSecure(id, h)
  \/ \E u \in ScenarioUsernames, p \in ScenarioPasswords : RegisterInsecure(u, p)
  \/ \E u \in ScenarioUsernames, p \in ScenarioPasswords : RegisterSecure(u, p)
  \/ \E req \in PendingInputs, salt \in Salts : RegisterSecureResume(req, salt)

SpecAccess == Init /\ [][NextAccess]_vars

\* Posts of several owners, written and read through all four endpoints.
NextPosts ==
  \/ \E u \in QueryUserIds : PostsInsecure(u)
  \/ \E u \in QueryUserIds : PostsSecure(u)
  \/ \E u \in ScenarioUsernames, p \in ScenarioPasswords : RegisterInsecure(u, p)
  \/ \E u \in BodyUserIds, c \in ContentInputs : PostInsecure(u, c)
  \/ \E u \in BodyUserIds, c \in ContentInputs : PostSecure(u, c)

SpecPosts == Init /\ [][NextPosts]_vars

\* Markup of every kind through /post/secure, fresh or read back.
NextSanitize ==
  \/ \E u \in ScenarioUsernames, p \in ScenarioPasswords : RegisterInsecure(u, p)
  \/ \E c \in MarkupInputs : PostInsecure(Integer(1), c)
  \/ \E c \in MarkupInputs \cup StoredContents : PostSecure(Integer(1), c)
  \/ PostsSecure(Text(<<"1">>))

SpecSanitize == Init /\ [][NextSanitize]_vars

\* Every endpoint under every input.
Next ==
  \/ \E id \in IdInputs : GetUser(id)
  \/ \E id \in IdInputs, h \in HeaderInputs : GetUserSecure(id, h)
  \/ \E u \in UsernameInputs, p \in PasswordInputs : RegisterInsecure(u, p)
  \/ \E u \in UsernameInputs, p \in PasswordInputs : RegisterSecure(u, p)
  \/ \E req \in PendingInputs, salt \in Salts : RegisterSecureResume(req, salt)
  \/ \E u \in QueryUserIds : PostsInsecure(u)
  \/ \E u \in QueryUserIds : PostsSecure(u)
  \/ \E u \in BodyUserIds, c \in ContentInputs \cup MarkupInputs : PostInsecure(u, c)
  \/ \E u \in BodyUserIds, c \in ContentInputs \cup MarkupInputs \cup StoredContents :
       PostSecure(u, c)

Spec == Init /\ [][Next]_vars

-----------------------------------------------------------------------------
(* Properties                                                              *)

ValidHeader(headers) ==
  "authorization" \in DOMAIN headers /\ headers.authorization = "Bearer valid_token"

\* C1: a request to GET /user/:id/secure reaches the handler exactly when its
\* Authorization header is the string "Bearer valid_token"; with any other
\* header, or none, it is rejected, the handler does not run and the answer
\* carries no user data.
C1_GateAdmitsExactlyValidToken ==
  resp.ep = "GET /user/:id/secure" =>
    /\ resp.handler <=> ValidHeader(resp.req.headers)
    /\ ~ValidHeader(resp.req.headers) =>
         /\ resp.status = 401
         /\ DOMAIN resp.body \cap {"id", "username", "password"} = {}

\* A request with a near-miss header is rejected although the user exists.
C1_Witness ==
  /\ resp.ep = "GET /user/:id/secure"
  /\ "authorization" \in DOMAIN resp.req.headers
  /\ resp.req.headers.authorization = "bearer valid_token"
  /\ resp.status = 401
  /\ UserRows(resp.req.id) # {}

\* C2 as stated: whenever the gate rejects a request, the response has status
\* 401 and the JSON body { "error": "Unauthorized" }.
C2_RejectBodyUnauthorized ==
  (resp.ep = "GET /user/:id/secure" /\ ~resp.handler) =>
    /\ resp.status = 401
    /\ resp.type = "json"
    /\ resp.body = [error |-> "Unauthorized"]

\* C2 as amended: whenever the gate rejects a request, the response has status
\* 401 and the JSON body { "error": "Não autorizado" }.
C2_RejectBodyNaoAutorizado ==
  (resp.ep = "GET /user/:id/secure" /\ ~ValidHeader(resp.req.headers)) =>
    /\ resp.status = 401
    /\ resp.type = "json"
    /\ resp.body = [error |-> "Não autorizado"]

\* A request without the header has been rejected.
C2_Witness ==
  /\ resp.ep = "GET /user/:id/secure"
  /\ "authorization" \notin DOMAIN resp.req.headers
  /\ resp.status = 401

RegisterEps == {"POST /register/insecure", "POST /register/secure"}

\* At most one row of users per username.
UniqueUsernames ==
  \A i, j \in DOMAIN users :
    (i # j /\ users[i].username.t = "text") => users[i].username # users[j].username

\* A step in which a request is answered.
Answered ==
  resp' # resp \/ users' # users \/ BagCardinality(pending') < BagCardinality(pending)

\* C3: once a username is registered, every later registration of it, through
\* either endpoint and under any interleaving of suspended /register/secure
\* requests, is answered 400 with an error body (the UNIQUE constraint's
\* message) and leaves the users table as it was; so the users table never
\* holds two rows with the same username.
C3_DuplicateRejected ==
  /\ []UniqueUsernames
  /\ [][(/\ Answered
         /\ resp'.ep \in RegisterEps
         /\ \E i \in DOMAIN users :
              /\ users[i].username.t = "text"
              /\ users[i].username = resp'.req.username)
        => (/\ users' = users
            /\ resp'.status = 400
            /\ resp'.type = "json"
            /\ DOMAIN resp'.body = {"error"}
            /\ resp'.req.password.t = "text" => resp'.body.error = UniqueMessage)]_vars

\* Of two /register/secure requests for one username, one has been stored
\* and the other one answered with the constraint's error.
C3_Witness ==
  /\ resp.ep = "POST /register/secure"
  /\ resp.status = 400
  /\ resp.body.error = UniqueMessage
  /\ \E i \in DOMAIN users :
       /\ users[i].username = resp.req.username
       /\ BcryptCompare(resp.req.password.s, users[i].password.s)

\* C4: GET /user/:id/secure answers with user data only under the valid
\* token, and without the header with status 401; the data is the id and the
\* username of the user with that id and nothing else (no password), or
\* nothing when there is no such user.  After alice registered first, id 1
\* yields {id: 1, username: "alice"}.
C4_SecureLookupHidesPassword ==
  resp.ep = "GET /user/:id/secure" =>
    /\ resp.status = 200 <=> ValidHeader(resp.req.headers)
    /\ "authorization" \notin DOMAIN resp.req.headers => resp.status = 401
    /\ resp.status = 200 =>
         LET id == resp.req.id
             found == {i \in DOMAIN users :
                         id.s \in DOMAIN NumericText /\ users[i].id = NumericText[id.s]}
         IN /\ found = {} => resp.body = NoBody
            /\ \A i \in found :
                 /\ DOMAIN resp.body = {"id", "username"}
                 /\ resp.body.id = users[i].id
                 /\ resp.body.username = users[i].username
            /\ (id = Text(<<"1">>) /\ found # {} /\ users[1].username = Text(<<"alice">>))
                 => resp.body = [id |-> 1, username |-> Text(<<"alice">>)]

\* alice registered through /register/secure and was looked up by id 1.
C4_Witness ==
  /\ resp.ep = "GET /user/:id/secure"
  /\ resp.req.id = Text(<<"1">>)
  /\ resp.body = [id |-> 1, username |-> Text(<<"alice">>)]
  /\ BcryptCompare(<<"pw123">>, users[1].password.s)

\* C5: after a successful /register/secure with password p, the stored value
\* is a bcrypt hash of p with work factor 10: it differs from p, and
\* bcrypt.compare(p, stored) is true.
C5_StoresVerifiableHash ==
  (resp.ep = "POST /register/secure" /\ resp.status = 200) =>
    LET row == users[Len(users)]
        p == resp.req.password
    IN /\ row.username = resp.req.username
       /\ row.password.t = "text"
       /\ row.password # p
       /\ \E salt \in Salts : row.password.s = BcryptHash(p.s, SaltRounds, salt)
       /\ BcryptCompare(p.s, row.password.s)

\* A password that itself looks like a bcrypt output has been registered.
C5_Witness ==
  /\ resp.ep = "POST /register/secure"
  /\ resp.status = 200
  /\ resp.req.password.s[1] = "$2b$"

IsNumeric(v) == v.t = "text" /\ v.s \in DOMAIN NumericText

\* C6: a successful POST /post/insecure stores the request's content as it
\* is; GET /posts/insecure?userId=u returns every stored post of owner u as
\* stored; and no later request changes a stored post.
C6_RawContentRoundTrip ==
  /\ [](/\ (resp.ep = "POST /post/insecure" /\ resp.status = 200) =>
             /\ posts[Len(posts)].content = resp.req.content
             /\ posts[Len(posts)].user_id = IntegerAffinity(resp.req.userId)
        /\ (resp.ep = "GET /posts/insecure" /\ IsNumeric(resp.req.userId)) =>
             /\ resp.status = 200
             /\ \A i \in DOMAIN posts :
                  posts[i].user_id = Integer(NumericText[resp.req.userId.s])
                    => \E k \in DOMAIN resp.body : resp.body[k] = posts[i])
  /\ [][\A i \in DOMAIN posts : i \in DOMAIN posts' /\ posts'[i] = posts[i]]_vars

\* The markup has been read back among two posts of the owner.
C6_Witness ==
  /\ resp.ep = "GET /posts/insecure"
  /\ resp.status = 200
  /\ Len(resp.body) = 2
  /\ resp.body[1].content = Text(ImgContent)
  /\ resp.body[2].content # Text(ImgContent)

\* C7 as stated: every request that fails is answered with a JSON error
\* object and status 400 or 401; none ends in an uncaught exception.
C7_FailuresAreJsonErrors ==
  (resp.ep # "none" /\ resp.status # 200) =>
    /\ resp.type = "json"
    /\ resp.status \in {400, 401}
    /\ DOMAIN resp.body = {"error"}

\* C8: GET /posts/secure returns exactly the stored posts whose user_id is
\* the number the userId parameter reads as; a parameter that is not a
\* number, SQL text included, selects nothing.
C8_ParameterIsAValue ==
  resp.ep = "GET /posts/secure" =>
    LET v == resp.req.userId
        Owned(row) ==
          /\ IsNumeric(v)
          /\ row.user_id.t = "integer"
          /\ row.user_id.n = NumericText[v.s]
    IN /\ resp.status = 200
       /\ \A k \in DOMAIN resp.body :
            \E i \in DOMAIN posts : posts[i] = resp.body[k] /\ Owned(posts[i])
       /\ \A i \in DOMAIN posts :
            Owned(posts[i]) => \E k \in DOMAIN resp.body : resp.body[k] = posts[i]

\* The injection text selected nothing although posts are stored.
C8_Witness ==
  /\ resp.ep = "GET /posts/secure"
  /\ resp.req.userId = Text(<<"1 OR 1=1">>)
  /\ resp.body = <<>>
  /\ Len(posts) = 2

HasScriptTag(content) ==
  \E i \in DOMAIN content.s :
    content.s[i].k \in {"open", "close"} /\ content.s[i].name = "script"

\* C9 as stated: the content /post/secure stores is sanitize(s), contains no
\* <script>, and is a fixed point of sanitize (sanitizing it again, as when
\* it is read back and submitted again, leaves it unchanged).
C9_SanitizeIdempotent ==
  (resp.ep = "POST /post/secure" /\ resp.status = 200) =>
    LET stored == posts[Len(posts)].content
    IN /\ stored = Sanitize(resp.req.content)
       /\ ~HasScriptTag(stored)
       /\ Sanitize(stored) = stored

PostEps == {"POST /post/insecure", "POST /post/secure"}

References(userId) ==
  \/ userId.t = "null"
  \/ userId.t = "integer" /\ \E j \in DOMAIN users : users[j].id = userId.n

=============================================================================
